---- MODULE Spec2Model ----
(***************************************************************************)
(* Model of the presale signing service (guvenemirhan/eip712-signer):      *)
(* the request handler `signer` (src/main.rs) and the pipeline `sign`      *)
(* with its stages check_params, calculate_amount and get_token_info       *)
(* (src/sign_data.rs).                                                      *)
(*                                                                         *)
(* The program's integers are u64 and U256 values, and one of its          *)
(* constants is 100_000_000_000; none of these fit the model checker's     *)
(* 32-bit integers.  Unsigned integers are therefore represented exactly,  *)
(* as little-endian sequences of base-2^8 digits without leading zeros     *)
(* (the number zero is the empty sequence), so that two representations    *)
(* are equal exactly when the numbers are.                                 *)
(***************************************************************************)
EXTENDS Integers, Sequences, FiniteSets, TLC

(***************************************************************************)
(* Exact unsigned arithmetic on digit sequences.                           *)
(***************************************************************************)
Radix == 2^8

RECURSIVE Norm(_)
Norm(s) ==
    IF s = <<>> THEN <<>>
    ELSE IF s[Len(s)] = 0 THEN Norm(SubSeq(s, 1, Len(s) - 1))
    ELSE s

RECURSIVE FromInt(_)
FromInt(n) == IF n = 0 THEN <<>> ELSE <<n % Radix>> \o FromInt(n \div Radix)

Digit(s, i) == IF i >= 1 /\ i <= Len(s) THEN s[i] ELSE 0

MaxOf(m, n) == IF m >= n THEN m ELSE n

\* a < b, decided at the most significant digit where a and b differ
RECURSIVE LtFrom(_, _, _)
LtFrom(a, b, i) ==
    IF i = 0 THEN FALSE
    ELSE IF Digit(a, i) # Digit(b, i) THEN Digit(a, i) < Digit(b, i)
    ELSE LtFrom(a, b, i - 1)

Lt(a, b) == LtFrom(a, b, MaxOf(Len(a), Len(b)))
Le(a, b) == ~Lt(b, a)
Gt(a, b) == Lt(b, a)
Ge(a, b) == ~Lt(a, b)

RECURSIVE AddFrom(_, _, _, _)
AddFrom(a, b, i, carry) ==
    IF i > MaxOf(Len(a), Len(b))
    THEN (IF carry = 0 THEN <<>> ELSE <<carry>>)
    ELSE LET t == Digit(a, i) + Digit(b, i) + carry
         IN  <<t % Radix>> \o AddFrom(a, b, i + 1, t \div Radix)

Plus(a, b) == Norm(AddFrom(a, b, 1, 0))

RECURSIVE ScaleFrom(_, _, _, _)
ScaleFrom(a, d, i, carry) ==
    IF i > Len(a)
    THEN (IF carry = 0 THEN <<>> ELSE <<carry>>)
    ELSE LET t == a[i] * d + carry
         IN  <<t % Radix>> \o ScaleFrom(a, d, i + 1, t \div Radix)

\* a * b by the schoolbook method: a * b[1] + Radix * (a * b[2..])
RECURSIVE Times(_, _)
Times(a, b) ==
    IF b = <<>> \/ a = <<>> THEN <<>>
    ELSE Plus(Norm(ScaleFrom(a, b[1], 1, 0)),
              Norm(<<0>> \o Times(a, Tail(b))))

\* floor(a / d) for a small divisor 0 < d <= Radix, from the top digit down
RECURSIVE DivFrom(_, _, _, _)
DivFrom(a, d, i, rem) ==
    IF i = 0 THEN <<>>
    ELSE LET t == rem * Radix + a[i]
         IN  DivFrom(a, d, i - 1, t % d) \o <<t \div d>>

DivSmall(a, d) == Norm(DivFrom(a, d, Len(a), 0))

\* a - 1 for a > 0
RECURSIVE Pred(_)
Pred(a) ==
    IF a[1] > 0 THEN Norm(<<a[1] - 1>> \o Tail(a))
    ELSE Norm(<<Radix - 1>> \o Pred(Tail(a)))

RECURSIVE Pow2(_)
Pow2(k) == IF k < 8 THEN <<2^k>> ELSE <<0>> \o Pow2(k - 8)

Zero == <<>>

(***************************************************************************)
(* The u64 type: values below 2^64; arithmetic that leaves the range       *)
(* either panics (overflow checks compiled in) or keeps the low 64 bits.   *)
(***************************************************************************)
U64Bits == 64

FitsU64(a) == Lt(a, Pow2(U64Bits))

\* a mod 2^64: the low U64Bits \div 8 digits
WrapU64(a) ==
    Norm(SubSeq(a, 1, IF Len(a) < U64Bits \div 8 THEN Len(a) ELSE U64Bits \div 8))

(***************************************************************************)
(* Results.  Option and Result values are records, so that values of      *)
(* different shapes can be compared.                                       *)
(***************************************************************************)
None == [some |-> FALSE]
Some(v) == [some |-> TRUE, val |-> v]

Ok(v) == [tag |-> "Ok", value |-> v]
Err(type, what) == [tag |-> "Err", type |-> type, what |-> what]
Unit == "()"

\* enum ParamsErrors
ParamsErrors ==
    {"MinBuyError", "MaxBuyError", "HardcapError", "SoftcapError",
     "LiqRateError", "ListingRateError", "PresaleRateError",
     "StartTimeError", "EndTimeError"}

\* impl ToOption for bool: true is Ok(()), false is Err(error)
ok_or(b, error) == IF b THEN Ok(Unit) ELSE Err("ParamsErrors", error)

\* Result::and_then: the closure runs only on Ok
and_then(r, next) == IF r.tag = "Ok" THEN next ELSE r

\* the literal 100_000_000_000 of the listing_rate and presale_rate checks
RateLimit == Times(FromInt(100000), FromInt(1000000))

(***************************************************************************)
(* fn check_params(presale: &Presale) -> Result<(), ParamsErrors>          *)
(* now_timestamp is the clock sample taken at the top of the function, in  *)
(* seconds since the epoch (a clock set before the epoch, on which the     *)
(* function panics, is left out).  params_checks lists the closures of the       *)
(* and_then chain in their order: the condition each one tests and the     *)
(* error it gives to ok_or.                                                *)
(***************************************************************************)
params_checks(presale, now_timestamp) ==
    << [holds |-> Gt(presale.min_buy, Zero),
        error |-> "MinBuyError"],
       [holds |-> Gt(presale.max_buy, Zero) /\ Lt(presale.min_buy, presale.max_buy),
        error |-> "MaxBuyError"],
       [holds |-> Le(presale.max_buy, presale.hardcap),
        error |-> "MaxBuyError"],
       [holds |-> Gt(presale.hardcap, Zero) /\ Gt(presale.hardcap, presale.softcap),
        error |-> "HardcapError"],
       [holds |-> Ge(presale.softcap, DivSmall(presale.hardcap, 2)),
        error |-> "HardcapError"],
       [holds |-> Gt(presale.softcap, Zero),
        error |-> "SoftcapError"],
       [holds |-> Gt(presale.liquidity_rate, FromInt(50))
                    /\ Le(presale.liquidity_rate, FromInt(100)),
        error |-> "LiqRateError"],
       [holds |-> Gt(presale.listing_rate, Zero) /\ Le(presale.listing_rate, RateLimit),
        error |-> "ListingRateError"],
       [holds |-> Gt(presale.presale_rate, Zero) /\ Le(presale.presale_rate, RateLimit),
        error |-> "PresaleRateError"],
       [holds |-> Ge(presale.start_time, now_timestamp)
                    /\ Lt(presale.start_time, presale.end_time),
        error |-> "StartTimeError"] >>

\* Ok(()).and_then(checks[i]).and_then(checks[i + 1]). ... : the first
\* closure whose condition is false ends the chain with its error
RECURSIVE and_then_chain(_, _, _)
and_then_chain(r, checks, i) ==
    IF i > Len(checks) THEN r
    ELSE and_then_chain(and_then(r, ok_or(checks[i].holds, checks[i].error)),
                        checks, i + 1)

\* check_params with the liquidity_rate check written `>= 50`
check_params_liq_inclusive(presale, now_timestamp) ==
    and_then_chain(Ok(Unit),
        [params_checks(presale, now_timestamp) EXCEPT
            ![7].holds = Ge(presale.liquidity_rate, FromInt(50))
                            /\ Le(presale.liquidity_rate, FromInt(100))], 1)

\* check_params with the liquidity_rate check moved before the first
\* hardcap comparison
check_params_liq_early(presale, now_timestamp) ==
    LET checks == params_checks(presale, now_timestamp)
    IN  and_then_chain(Ok(Unit),
            <<checks[1], checks[2], checks[7], checks[3], checks[4], checks[5],
              checks[6], checks[8], checks[9], checks[10]>>, 1)

\* check_params with the listing_rate check carrying the error of the
\* presale_rate check
check_params_listing_kind(presale, now_timestamp) ==
    and_then_chain(Ok(Unit),
        [params_checks(presale, now_timestamp) EXCEPT ![8].error = "PresaleRateError"], 1)

check_params(presale, now_timestamp) ==
    and_then_chain(Ok(Unit), params_checks(presale, now_timestamp), 1)

(***************************************************************************)
(* fn calculate_amount(hardcap, presale_rate, listing_rate) -> u64         *)
(* u64 `mul` and `add` panic on overflow when the build has overflow       *)
(* checks (the debug profile) and keep the low 64 bits when it has not     *)
(* (the release profile).                                                  *)
(***************************************************************************)
u64_mul(a, b, overflow_checks) ==
    LET exact == Times(a, b)
    IN  IF FitsU64(exact) THEN Ok(exact)
        ELSE IF overflow_checks THEN Err("panic", "attempt to multiply with overflow")
        ELSE Ok(WrapU64(exact))

u64_add(a, b, overflow_checks) ==
    LET exact == Plus(a, b)
    IN  IF FitsU64(exact) THEN Ok(exact)
        ELSE IF overflow_checks THEN Err("panic", "attempt to add with overflow")
        ELSE Ok(WrapU64(exact))

calculate_amount(hardcap, presale_rate, listing_rate, overflow_checks) ==
    LET presale_amount == u64_mul(hardcap, presale_rate, overflow_checks)
        liquidity_amount == u64_mul(hardcap, listing_rate, overflow_checks)
    IN  IF presale_amount.tag = "Err" THEN presale_amount
        ELSE IF liquidity_amount.tag = "Err" THEN liquidity_amount
        ELSE u64_add(presale_amount.value, liquidity_amount.value, overflow_checks)

(***************************************************************************)
(* Addresses.  `parse::<Address>()` / `H160::from_str` accept 40           *)
(* hexadecimal digits, with or without a 0x prefix, and nothing else.      *)
(***************************************************************************)
TokenAddress == "0x6b175474e89094c44da98b954eedeac495271d0f"
OwnerAddress == "0x00000000219ab540356cbb839cbe05303d7705fa"
PoolManagerAddress == "0x1f9840a85d5af5bf1d1762f925bdaddc4201f984"
HexAddresses == {TokenAddress, OwnerAddress, PoolManagerAddress}

parse_address(text) ==
    IF text \in HexAddresses THEN Ok(text) ELSE Err("FromHexError", "Invalid input length")

\* the literal parsed for EIP712Domain.verifying_contract in `sign`
VerifyingContract == "/*CONTRACT ADDRESS IS HERE*/"

(***************************************************************************)
(* Requests.  A request differs from BasePresale, which passes every       *)
(* check at the earlier clock sample, in at most MaxChanged fields; each   *)
(* changed field takes one of the values of Others (is_vesting and         *)
(* auto_listing keep their value).                                         *)
(***************************************************************************)
MaxChanged == 2

PresaleFields ==
    {"currency", "presale_rate", "softcap", "hardcap", "min_buy", "max_buy",
     "liquidity_rate", "listing_rate", "start_time", "end_time", "lock_end_time",
     "is_vesting", "is_lock", "refund", "auto_listing"}

BasePresale ==
    [currency |-> TokenAddress,
     presale_rate |-> FromInt(10),
     softcap |-> FromInt(60),
     hardcap |-> FromInt(100),
     min_buy |-> FromInt(1),
     max_buy |-> FromInt(2),
     liquidity_rate |-> FromInt(60),
     listing_rate |-> FromInt(5),
     start_time |-> FromInt(2000),
     end_time |-> FromInt(3000),
     lock_end_time |-> FromInt(4000),
     is_vesting |-> FALSE,
     is_lock |-> FALSE,
     refund |-> FALSE,
     auto_listing |-> FALSE]

Others(field) ==
    CASE field = "currency" -> {"not an address"}
      [] field = "presale_rate" -> {Zero, RateLimit, Plus(RateLimit, FromInt(1))}
      [] field = "softcap" -> {Zero, FromInt(1), FromInt(50), FromInt(100), Pow2(62)}
      [] field = "hardcap" -> {FromInt(1), FromInt(101), Pow2(63)}
      [] field = "min_buy" -> {Zero}
      [] field = "max_buy" -> {FromInt(1), FromInt(200)}
      [] field = "liquidity_rate" -> {FromInt(50), FromInt(51), FromInt(100), FromInt(101)}
      [] field = "listing_rate" -> {Zero, RateLimit, Plus(RateLimit, FromInt(1))}
      [] field = "start_time" -> {FromInt(999), FromInt(3000)}
      [] field = "end_time" -> {FromInt(2000)}
      [] field = "lock_end_time" -> {Zero}
      [] field = "is_lock" -> {TRUE}
      [] field = "refund" -> {TRUE}
      [] OTHER -> {}

OneChange(p) ==
    UNION {{[p EXCEPT ![field] = v] : v \in Others(field)} : field \in PresaleFields}

RECURSIVE Changed(_)
Changed(n) ==
    IF n = 0 THEN {BasePresale}
    ELSE LET fewer == Changed(n - 1)
         IN  fewer \cup UNION {OneChange(p) : p \in fewer}

Presales == Changed(MaxChanged)

Owners == {OwnerAddress}

\* clock samples of SystemTime::now(), seconds since the epoch
Nows == {FromInt(1000), FromInt(2001)}

(***************************************************************************)
(* The process environment read with env::var, and the build profile.      *)
(***************************************************************************)
GoodEnv ==
    [RPC_URL |-> "http://localhost:8545",
     PROXY_MANAGER |-> PoolManagerAddress,
     PRIVATE_KEY |-> "valid key"]

NotPresent == "<unset>"

Envs ==
    {GoodEnv,
     [GoodEnv EXCEPT !.RPC_URL = NotPresent],
     [GoodEnv EXCEPT !.PROXY_MANAGER = NotPresent],
     [GoodEnv EXCEPT !.PROXY_MANAGER = "not an address"]}

\* env::var(name)
env_var(environment, name) ==
    IF environment[name] = NotPresent
    THEN Err("VarError", "NotPresent")
    ELSE Ok(environment[name])

\* Provider::<Http>::try_from(rpc_url)
provider_try_from(rpc_url) ==
    IF rpc_url = GoodEnv.RPC_URL THEN Ok(rpc_url) ELSE Err("ParseError", "relative URL without a base")

(***************************************************************************)
(* Ledger answers.  balanceOf and allowance return U256 values; the        *)
(* answers sampled for a request lie around the amount it asks for.        *)
(***************************************************************************)
LedgerValues(required) ==
    {Zero, required, Plus(required, FromInt(1)), Pow2(U64Bits)}
        \cup (IF required = Zero THEN {} ELSE {Pred(required)})

\* token_info_success comparing with `>` instead of `>=`
token_info_success_strict(balance, allowance, required) ==
    Gt(balance, required) /\ Gt(allowance, required)

\* get_token_info: `success`, with U256::from(amount) the same number
token_info_success(balance, allowance, required) ==
    Ge(balance, required) /\ Ge(allowance, required)

\* get_token_info: the value returned once both calls have answered
token_info_result(balance, allowance, required) ==
    IF token_info_success(balance, allowance, required)
    THEN Ok(Unit)
    ELSE Err("io::Error", "insufficient balance")

\* one ledger call: it fails, or it answers with a value
LedgerAnswers(required) ==
    {Err("ContractError", "call failed")} \cup {Ok(v) : v \in LedgerValues(required)}

\* LocalWallet::sign_typed_data followed by format!("0x{}", signature)
signature_string(key, domain, message) ==
    [prefix |-> "0x", hex |-> [key |-> key, domain |-> domain, message |-> message]]

(***************************************************************************)
(* State of the service while it handles one request after another.        *)
(***************************************************************************)
VARIABLES
    env,              \* the process environment
    overflow_checks,  \* whether the build checks integer overflow
    pc,               \* where the handler of the current request stands
    presale,          \* the request's presale
    owner,            \* the request's owner address
    now,              \* the clock sample of check_params
    check,            \* what check_params returned
    amount,           \* what calculate_amount returned
    balance,          \* the answer of balanceOf
    allowance,        \* the answer of allowance
    token_info,       \* what get_token_info returned
    queries,          \* the ledger calls issued for the request, in order
    signed,           \* whether sign_typed_data has run for the request
    result,           \* what sign returned
    panicked,         \* the panic that ended the request, if any
    response          \* the HTTP response of signer

vars ==
    <<env, overflow_checks, pc, presale, owner, now, check, amount, balance,
      allowance, token_info, queries, signed, result, panicked, response>>

Init ==
    /\ env \in Envs
    /\ overflow_checks \in BOOLEAN
    /\ pc = "idle"
    /\ presale = None
    /\ owner = None
    /\ now = None
    /\ check = None
    /\ amount = None
    /\ balance = None
    /\ allowance = None
    /\ token_info = None
    /\ queries = <<>>
    /\ signed = FALSE
    /\ result = None
    /\ panicked = None
    /\ response = None

\* signer: a request is decoded and sign(presale, owner) is called
Receive ==
    /\ pc = "idle"
    /\ pc' = "check_params"
    /\ \E p \in Presales, o \in Owners :
          presale' = Some(p) /\ owner' = Some(o)
    /\ UNCHANGED <<env, overflow_checks, now, check, amount, balance, allowance,
                   token_info, queries, signed, result, panicked, response>>

\* CheckParams without the `return` of the Err arm
CheckParams_no_return(t) ==
    /\ pc = "check_params"
    /\ now' = Some(t)
    /\ check' = Some(check_params(presale.val, t))
    /\ pc' = "calculate_amount"
    /\ UNCHANGED <<env, overflow_checks, presale, owner, amount, balance, allowance,
                   token_info, queries, signed, result, panicked, response>>

\* sign: match check_params(&presale)
CheckParams(t) ==
    /\ pc = "check_params"
    /\ LET r == check_params(presale.val, t)
       IN  /\ now' = Some(t)
           /\ check' = Some(r)
           /\ IF r.tag = "Ok"
              THEN pc' = "calculate_amount" /\ UNCHANGED result
              ELSE pc' = "returned" /\ result' = Some(r)
    /\ UNCHANGED <<env, overflow_checks, presale, owner, amount, balance, allowance,
                   token_info, queries, signed, panicked, response>>

\* sign: calculate_amount(..), then H160::from_str(currency).expect(..)
CalculateAmount ==
    /\ pc = "calculate_amount"
    /\ LET a == calculate_amount(presale.val.hardcap, presale.val.presale_rate,
                                 presale.val.listing_rate, overflow_checks)
           currency_h160 == parse_address(presale.val.currency)
       IN  IF a.tag = "Err"
           THEN /\ pc' = "panicked"
                /\ panicked' = Some(a.what)
                /\ UNCHANGED amount
           ELSE /\ amount' = Some(a.value)
                /\ IF currency_h160.tag = "Err"
                   THEN pc' = "panicked" /\ panicked' = Some("Invalid address")
                   ELSE pc' = "get_token_info" /\ UNCHANGED panicked
    /\ UNCHANGED <<env, overflow_checks, presale, owner, now, check, balance, allowance,
                   token_info, queries, signed, result, response>>

\* get_token_info, up to the construction of the contract client
TokenInfoSetup ==
    /\ pc = "get_token_info"
    /\ LET rpc_url == env_var(env, "RPC_URL")
           proxy_man == env_var(env, "PROXY_MANAGER")
       IN  IF rpc_url.tag = "Err"
           THEN pc' = "token_info_returned" /\ token_info' = Some(rpc_url)
                /\ UNCHANGED panicked
           ELSE IF proxy_man.tag = "Err"
           THEN pc' = "token_info_returned" /\ token_info' = Some(proxy_man)
                /\ UNCHANGED panicked
           ELSE IF parse_address(proxy_man.value).tag = "Err"
           THEN pc' = "panicked" /\ panicked' = Some("Invalid address")
                /\ UNCHANGED token_info
           ELSE IF provider_try_from(rpc_url.value).tag = "Err"
           THEN pc' = "token_info_returned"
                /\ token_info' = Some(provider_try_from(rpc_url.value))
                /\ UNCHANGED panicked
           ELSE pc' = "balance_of" /\ UNCHANGED <<token_info, panicked>>
    /\ UNCHANGED <<env, overflow_checks, presale, owner, now, check, amount, balance,
                   allowance, queries, signed, result, response>>

\* get_token_info: contract.balance_of(owner).call().await?
BalanceOf ==
    /\ pc = "balance_of"
    /\ queries' = Append(queries, [call |-> "balanceOf", token |-> presale.val.currency,
                                   holder |-> owner.val])
    /\ \E answer \in LedgerAnswers(amount.val) :
          IF answer.tag = "Err"
          THEN pc' = "token_info_returned" /\ token_info' = Some(answer)
               /\ UNCHANGED balance
          ELSE pc' = "allowance" /\ balance' = Some(answer.value)
               /\ UNCHANGED token_info
    /\ UNCHANGED <<env, overflow_checks, presale, owner, now, check, amount, allowance,
                   signed, result, panicked, response>>

\* get_token_info: contract.allowance(owner, pool_manager).call().await?, and
\* the comparison of both answers with the amount
Allowance ==
    /\ pc = "allowance"
    /\ queries' = Append(queries, [call |-> "allowance", token |-> presale.val.currency,
                                   holder |-> owner.val, spender |-> env.PROXY_MANAGER])
    /\ \E answer \in LedgerAnswers(amount.val) :
          IF answer.tag = "Err"
          THEN token_info' = Some(answer) /\ UNCHANGED allowance
          ELSE /\ allowance' = Some(answer.value)
               /\ token_info' = Some(token_info_result(balance.val, answer.value,
                                                       amount.val))
    /\ pc' = "token_info_returned"
    /\ UNCHANGED <<env, overflow_checks, presale, owner, now, check, amount, balance,
                   signed, result, panicked, response>>

\* the error sign returns when get_token_info returned the error e
token_info_error(e) == Err("ParamsErrors", "EndTimeError")

\* sign: match get_token_info(..).await
MatchTokenInfo ==
    /\ pc = "token_info_returned"
    /\ IF token_info.val.tag = "Ok"
       THEN pc' = "build_and_sign" /\ UNCHANGED result
       ELSE pc' = "returned" /\ result' = Some(token_info_error(token_info.val))
    /\ UNCHANGED <<env, overflow_checks, presale, owner, now, check, amount, balance,
                   allowance, token_info, queries, signed, panicked, response>>

\* sign: the domain, the typed data, the wallet and the signature
BuildAndSign ==
    /\ pc = "build_and_sign"
    /\ LET verifying_contract == parse_address(VerifyingContract)
           private_key == env_var(env, "PRIVATE_KEY")
       IN  IF verifying_contract.tag = "Err"
           THEN /\ pc' = "panicked"
                /\ panicked' = Some("Invalid contract")
                /\ UNCHANGED <<signed, result>>
           ELSE IF private_key.tag = "Err"
           THEN /\ pc' = "panicked"
                /\ panicked' = Some("called Result::unwrap() on an Err value")
                /\ UNCHANGED <<signed, result>>
           ELSE /\ pc' = "returned"
                /\ signed' = TRUE
                /\ result' = Some(Ok(signature_string(private_key.value,
                                        [name |-> "EIP712-Derive", version |-> "1",
                                         chain_id |-> 1,
                                         verifying_contract |-> verifying_contract.value],
                                        presale.val)))
                /\ UNCHANGED panicked
    /\ UNCHANGED <<env, overflow_checks, presale, owner, now, check, amount, balance,
                   allowance, token_info, queries, response>>

\* signer: match sign(presale, owner).await
http_response(r) ==
    IF r.tag = "Ok"
    THEN [status |-> 200, body |-> r.value]
    ELSE [status |-> 400, body |-> "overflow"]

Respond ==
    /\ pc = "returned"
    /\ response' = Some(http_response(result.val))
    /\ pc' = "responded"
    /\ UNCHANGED <<env, overflow_checks, presale, owner, now, check, amount, balance,
                   allowance, token_info, queries, signed, result, panicked>>

\* the request is over: its response has been sent, or its handler has
\* panicked and the connection is closed without one; its locals are dropped
Finish ==
    /\ pc \in {"responded", "panicked"}
    /\ pc' = "idle"
    /\ presale' = None
    /\ owner' = None
    /\ now' = None
    /\ check' = None
    /\ amount' = None
    /\ balance' = None
    /\ allowance' = None
    /\ token_info' = None
    /\ queries' = <<>>
    /\ signed' = FALSE
    /\ result' = None
    /\ panicked' = None
    /\ response' = None
    /\ UNCHANGED <<env, overflow_checks>>

Next ==
    \/ Receive
    \/ \E t \in Nows : CheckParams(t)
    \/ CalculateAmount
    \/ TokenInfoSetup
    \/ BalanceOf
    \/ Allowance
    \/ MatchTokenInfo
    \/ BuildAndSign
    \/ Respond
    \/ Finish

Spec == Init /\ [][Next]_vars

(***************************************************************************)
(* The validation rules as the specification numbers them, the rules an    *)
(* input violates, and the positions of a request.                         *)
(***************************************************************************)
RuleHolds(k, p, t) ==
    CASE k = 1 -> Gt(p.min_buy, Zero)
      [] k = 2 -> Gt(p.max_buy, Zero) /\ Lt(p.min_buy, p.max_buy)
      [] k = 3 -> Le(p.max_buy, p.hardcap)
      [] k = 4 -> Gt(p.hardcap, Zero) /\ Gt(p.hardcap, p.softcap)
      [] k = 5 -> Ge(p.softcap, DivSmall(p.hardcap, 2))
      [] k = 6 -> Gt(p.softcap, Zero)
      [] k = 7 -> Lt(FromInt(50), p.liquidity_rate) /\ Le(p.liquidity_rate, FromInt(100))
      [] k = 8 -> Lt(Zero, p.listing_rate) /\ Le(p.listing_rate, RateLimit)
      [] k = 9 -> Lt(Zero, p.presale_rate) /\ Le(p.presale_rate, RateLimit)
      [] k = 10 -> Ge(p.start_time, t) /\ Lt(p.start_time, p.end_time)

Violated(p, t) == {k \in 1..10 : ~RuleHolds(k, p, t)}

First(rules) == CHOOSE k \in rules : \A j \in rules : k <= j

\* the error carried by the k-th check of check_params
check_errors == [k \in 1..10 |-> params_checks(BasePresale, Zero)[k].error]
check_error(k) == check_errors[k]

\* check_params has just returned for the current request
JustChecked == check.some /\ ~amount.some /\ pc \in {"calculate_amount", "returned"}

CheckPassed == check.some /\ check.val.tag = "Ok"

\* the request is over
Over == pc \in {"responded", "panicked"}

\* the same request with other values in the fields check_params never reads
Unvalidated(p) ==
    {[p EXCEPT !.lock_end_time = l, !.is_vesting = f[1], !.is_lock = f[2],
               !.refund = f[3], !.auto_listing = f[4], !.currency = c] :
        l \in {Zero, FromInt(4000)},
        f \in {<<FALSE, FALSE, FALSE, FALSE>>, <<TRUE, FALSE, TRUE, FALSE>>,
               <<FALSE, TRUE, FALSE, TRUE>>, <<TRUE, TRUE, TRUE, TRUE>>},
        c \in {TokenAddress, "not an address"}}

\* hardcap * presaleRate + hardcap * listingRate, as a mathematical integer
ExactAmount(p) == Plus(Times(p.hardcap, p.presale_rate), Times(p.hardcap, p.listing_rate))

(***************************************************************************)
(* C1: check_params returns success exactly when all ten rules of the      *)
(* specification hold for the presale and the sampled time, and what it    *)
(* returns is the same for every value of lockEndTime, isVesting, isLock,  *)
(* refund, autoListing and currency.                                       *)
(***************************************************************************)
C1_SuccessIffAllRules ==
    JustChecked =>
        /\ (check.val.tag = "Ok") <=> (Violated(presale.val, now.val) = {})
        /\ \A q \in Unvalidated(presale.val) : check_params(q, now.val) = check.val

C1_Witness ==
    /\ JustChecked
    /\ check.val.tag = "Ok"
    /\ presale.val.is_lock
    /\ presale.val.lock_end_time = Zero

(***************************************************************************)
(* C2: when several rules are violated, check_params reports the error of  *)
(* the lowest-numbered violated rule, not the different error of a later   *)
(* violated rule; with rules 3 and 7 violated and rules 1 and 2 holding    *)
(* it reports the error of rule 3.                                         *)
(***************************************************************************)
C2_FirstViolatedRuleReported ==
    (JustChecked /\ check.val.tag = "Err") =>
        LET violated == Violated(presale.val, now.val)
        IN  /\ violated # {}
            /\ check.val = Err("ParamsErrors", check_error(First(violated)))
            /\ \A j \in violated :
                 check_error(j) # check_error(First(violated))
                     => check.val.what # check_error(j)
            /\ ({3, 7} \subseteq violated /\ 1 \notin violated /\ 2 \notin violated)
                 => check.val.what = "MaxBuyError" /\ check.val.what # "LiqRateError"

C2_Witness ==
    /\ JustChecked
    /\ {3, 7} \subseteq Violated(presale.val, now.val)
    /\ First(Violated(presale.val, now.val)) = 3
    /\ check.val.what = "MaxBuyError"

(***************************************************************************)
(* C3, as claimed: an input that violates exactly one rule gets an error   *)
(* that no input violating exactly one other rule gets.                    *)
(***************************************************************************)
C3_OneKindPerRule ==
    (JustChecked /\ Cardinality(Violated(presale.val, now.val)) = 1) =>
        \A q \in OneChange(BasePresale) :
            (/\ Cardinality(Violated(q, now.val)) = 1
             /\ Violated(q, now.val) # Violated(presale.val, now.val))
                => check_params(q, now.val) # check.val

(***************************************************************************)
(* C3, amended: an input that violates exactly one rule k gets the error   *)
(* of rule k in the table MinBuyError (1), MaxBuyError (2 and 3),          *)
(* HardcapError (4 and 5), SoftcapError (6), LiqRateError (7),             *)
(* ListingRateError (8), PresaleRateError (9), StartTimeError (10); two    *)
(* inputs violating exactly one rule each get the same error only when     *)
(* the rules are the same, or are 2 and 3, or are 4 and 5.                 *)
(***************************************************************************)
RuleError(k) ==
    CASE k = 1 -> "MinBuyError"
      [] k \in {2, 3} -> "MaxBuyError"
      [] k \in {4, 5} -> "HardcapError"
      [] k = 6 -> "SoftcapError"
      [] k = 7 -> "LiqRateError"
      [] k = 8 -> "ListingRateError"
      [] k = 9 -> "PresaleRateError"
      [] k = 10 -> "StartTimeError"

C3_KindPerRuleGroup ==
    (JustChecked /\ Cardinality(Violated(presale.val, now.val)) = 1) =>
        LET k == First(Violated(presale.val, now.val))
        IN  /\ check.val = Err("ParamsErrors", RuleError(k))
            /\ \A q \in OneChange(BasePresale) :
                 (/\ Cardinality(Violated(q, now.val)) = 1
                  /\ check_params(q, now.val) = check.val)
                     => LET j == First(Violated(q, now.val))
                        IN  j = k \/ {j, k} = {2, 3} \/ {j, k} = {4, 5}

C3_Witness ==
    /\ JustChecked
    /\ Violated(presale.val, now.val) = {5}
    /\ check.val = Err("ParamsErrors", "HardcapError")

(***************************************************************************)
(* C4, as claimed: every failure of check_params is one of the nine kinds  *)
(* of ParamsErrors, and each of the nine kinds is what check_params        *)
(* returns for at least one presale and time.                              *)
(***************************************************************************)
C4_EveryKindReturned ==
    /\ (check.some /\ check.val.tag = "Err") =>
           check.val.type = "ParamsErrors" /\ check.val.what \in ParamsErrors
    /\ \A kind \in ParamsErrors :
           \E p \in Presales, t \in Nows : check_params(p, t) = Err("ParamsErrors", kind)

(***************************************************************************)
(* C5, as claimed: the amount calculate_amount hands on is the exact       *)
(* value hardcap * presaleRate + hardcap * listingRate, and a request      *)
(* whose exact value does not fit 64 bits ends with an overflow error      *)
(* returned by sign.                                                       *)
(***************************************************************************)
C5_ExactOrOverflowError ==
    CheckPassed =>
        /\ amount.some => amount.val = ExactAmount(presale.val)
        /\ (Over /\ ~FitsU64(ExactAmount(presale.val))) =>
               /\ pc = "responded"
               /\ result.val.tag = "Err"
               /\ result.val.type = "Overflow"

(***************************************************************************)
(* C6: once both ledger calls have answered, get_token_info returns Ok     *)
(* exactly when balance >= amount and allowance >= amount, and the         *)
(* insufficient-balance error otherwise; equal figures succeed and either  *)
(* figure one below the amount fails.                                      *)
(***************************************************************************)
C6_SufficientIffBothCover ==
    (balance.some /\ allowance.some /\ token_info.some) =>
        LET enough == ~Lt(balance.val, amount.val) /\ ~Lt(allowance.val, amount.val)
        IN  /\ (token_info.val.tag = "Ok") <=> enough
            /\ ~enough => token_info.val = Err("io::Error", "insufficient balance")
            /\ (balance.val = amount.val /\ allowance.val = amount.val)
                 => token_info.val.tag = "Ok"
            /\ (amount.val # Zero /\ (balance.val = Pred(amount.val)
                                        \/ allowance.val = Pred(amount.val)))
                 => token_info.val.tag = "Err"

C6_Witness ==
    /\ token_info.some /\ token_info.val.tag = "Ok"
    /\ amount.val = FromInt(1500)
    /\ balance.val = amount.val
    /\ allowance.val = amount.val

(***************************************************************************)
(* C7, as claimed: when get_token_info fails because a ledger call or the  *)
(* configuration failed, sign returns an error that is not a ParamsErrors  *)
(* kind and differs from the one it returns for insufficient funds.        *)
(***************************************************************************)
C7_QueryFailureKeepsKind ==
    (/\ result.some
     /\ token_info.some
     /\ token_info.val.tag = "Err"
     /\ token_info.val.type \in {"VarError", "ParseError", "ContractError"})
        => /\ result.val.tag = "Err"
           /\ result.val.type # "ParamsErrors"
           /\ result.val # token_info_error(Err("io::Error", "insufficient balance"))

(***************************************************************************)
(* C8: the stages run in order and a failure ends the request: the amount  *)
(* is computed only after check_params succeeded, ledger calls are issued  *)
(* only after that, balanceOf before allowance, the signing step is        *)
(* reached only after get_token_info succeeded, and a request with         *)
(* minBuy = 0 ends in an error with no ledger call and no signature.       *)
(***************************************************************************)
C8_StagesInOrder ==
    /\ amount.some => CheckPassed
    /\ (queries # <<>> \/ pc \in {"get_token_info", "balance_of", "allowance"}
          \/ token_info.some)
         => CheckPassed /\ amount.some
    /\ \A i \in 1..Len(queries) :
         queries[i].call = (IF i = 1 THEN "balanceOf" ELSE "allowance") /\ i <= 2
    /\ (pc = "build_and_sign" \/ signed)
         => token_info.some /\ token_info.val.tag = "Ok" /\ Len(queries) = 2
    /\ (presale.some /\ presale.val.min_buy = Zero /\ check.some)
         => /\ pc \in {"returned", "responded"}
            /\ result.val.tag = "Err"
            /\ queries = <<>>
            /\ ~signed
            /\ ~amount.some

C8_Witness ==
    /\ pc = "build_and_sign"
    /\ Len(queries) = 2
    /\ CheckPassed

(***************************************************************************)
(* C9, as claimed: with the placeholder as verifying contract the          *)
(* attestation step ends the request with a typed configuration error      *)
(* returned by sign: no signature, no user-input error, no abort.          *)
(***************************************************************************)
C9_PlaceholderIsTypedError ==
    (/\ token_info.some /\ token_info.val.tag = "Ok"
     /\ pc \in {"returned", "responded", "panicked"}
     /\ parse_address(VerifyingContract).tag = "Err")
        => /\ ~signed
           /\ pc # "panicked"
           /\ result.val.tag = "Err"
           /\ result.val.type # "ParamsErrors"

(***************************************************************************)
(* C10, as claimed: a request that passes check_params, whose amount does  *)
(* not overflow and whose balance and allowance cover the amount, with     *)
(* the signing key present, ends with success and a 0x-prefixed signature. *)
(***************************************************************************)
C10_CoveredRequestIsSigned ==
    (/\ Over
     /\ CheckPassed
     /\ FitsU64(ExactAmount(presale.val))
     /\ token_info.some /\ token_info.val.tag = "Ok"
     /\ env.PRIVATE_KEY = GoodEnv.PRIVATE_KEY)
        => /\ pc = "responded"
           /\ signed
           /\ result.val.tag = "Ok"
           /\ result.val.value.prefix = "0x"
           /\ response.val.status = 200

====
